---- MODULE Spec2Model ----
(***************************************************************************)
(* Model of poppinsbag/colors.py: the Color class, its constructor, the    *)
(* four recompute methods, the getters and the component lookup.           *)
(*                                                                         *)
(* Python strings are sequences of one-character strings.  A Color         *)
(* instance is the set attrs of attribute names present in its __dict__    *)
(* together with one variable per attribute.  Python floats are modelled   *)
(* by exact fractions (numerator, denominator); the triplets the model     *)
(* draws are ones on which the double computation and the exact one give   *)
(* the same integers.                                                      *)
(***************************************************************************)
EXTENDS Integers, Sequences, FiniteSets, TLC

\* Width of the two bands of channel values, 0..MaxLow and 255-MaxLow..255.
MaxLow == 2

----------------------------------------------------------------------------
(* Python built-ins used by colors.py *)

Abs(n) == IF n < 0 THEN -n ELSE n

Max3(t) == LET m == IF t[1] >= t[2] THEN t[1] ELSE t[2]
           IN  IF m >= t[3] THEN m ELSE t[3]

Min3(t) == LET m == IF t[1] <= t[2] THEN t[1] ELSE t[2]
           IN  IF m <= t[3] THEN m ELSE t[3]

\* s[i:j] for 0 <= i <= j, clamped to the length of s as Python does.
PySlice(s, i, j) ==
    LET hi == IF j < Len(s) THEN j ELSE Len(s)
    IN  IF i >= hi THEN << >> ELSE SubSeq(s, i + 1, hi)

\* s[i:]
PySliceFrom(s, i) == PySlice(s, i, Len(s))

LowerDigits == <<"0","1","2","3","4","5","6","7","8","9","a","b","c","d","e","f">>
UpperDigits == <<"0","1","2","3","4","5","6","7","8","9","A","B","C","D","E","F">>

IsHexDigit(c) == \E i \in 1..16 : LowerDigits[i] = c \/ UpperDigits[i] = c

DigitVal(c) == (CHOOSE i \in 1..16 : LowerDigits[i] = c \/ UpperDigits[i] = c) - 1

RECURSIVE DigitsVal(_)
DigitsVal(s) ==
    IF s = << >> THEN 0
    ELSE 16 * DigitsVal(SubSeq(s, 1, Len(s) - 1)) + DigitVal(s[Len(s)])

AllHexDigits(s) == s /= << >> /\ \A i \in 1..Len(s) : IsHexDigit(s[i])

\* The digits of a base-16 literal: an optional sign and an optional 0x prefix
\* are dropped.
LiteralDigits(s) ==
    LET signed == s /= << >> /\ s[1] \in {"-", "+"}
        body   == IF signed THEN PySliceFrom(s, 1) ELSE s
        pref   == Len(body) >= 2 /\ body[1] = "0" /\ body[2] \in {"x", "X"}
    IN  IF pref THEN PySliceFrom(body, 2) ELSE body

\* int(s, 16) on strings over hex digits, "-", "+", "x", "X" and letters that
\* are no digit: an optional sign, an optional 0x prefix, then one or more
\* hex digits.  The result is <<n>>, or << >> when int() raises ValueError.
IntBase16(s) ==
    LET digs == LiteralDigits(s)
    IN  IF ~AllHexDigits(digs) THEN << >>
        ELSE IF s[1] = "-" THEN <<0 - DigitsVal(digs)>>
        ELSE <<DigitsVal(digs)>>

\* int(s, 16) % 256 for a string s of hex digits, reduced digit by digit so
\* that an 8-digit slice of a digest stays inside machine integers.
RECURSIVE IntBase16Mod256(_)
IntBase16Mod256(s) ==
    IF s = << >> THEN 0
    ELSE (16 * IntBase16Mod256(SubSeq(s, 1, Len(s) - 1)) + DigitVal(s[Len(s)])) % 256

RECURSIVE NatHex(_)
NatHex(n) ==
    IF n < 16 THEN <<LowerDigits[n + 1]>>
    ELSE Append(NatHex(n \div 16), LowerDigits[(n % 16) + 1])

\* hex(n)[2:] : hex() gives "0x.." for n >= 0 and "-0x.." for n < 0.
HexFrom2(n) == IF n >= 0 THEN NatHex(n) ELSE <<"x">> \o NatHex(0 - n)

\* zfill left out: a channel below 16 keeps its single digit.
Zfill2_NoPad(s) == s

\* s.zfill(2) for a string that does not start with a sign.
Zfill2(s) == IF Len(s) >= 2 THEN s
             ELSE IF Len(s) = 1 THEN <<"0">> \o s
             ELSE <<"0", "0">>

\* int(x) in place of int(round(x)): the fraction n/d cut towards zero.
PyRound_Truncate(n, d) ==
    LET nn == IF d < 0 THEN 0 - n ELSE n
        dd == Abs(d)
    IN  IF nn >= 0 THEN nn \div dd ELSE 0 - ((0 - nn) \div dd)

\* round(x) of Python 3 for the fraction n/d, d /= 0: to the nearest integer,
\* a tie to the even neighbour.
PyRound(n, d) ==
    LET nn == IF d < 0 THEN 0 - n ELSE n
        dd == Abs(d)
        q  == nn \div dd
        r  == nn % dd
    IN  IF 2 * r > dd \/ (2 * r = dd /\ q % 2 = 1) THEN q + 1 ELSE q

----------------------------------------------------------------------------
(* The conversions of class Color, as functions of the attributes they read *)

\* convert_rgb_to_hex: "#" and, per channel, hex(int(c))[2:].zfill(2).
ConvertRgbToHex(rgb) ==
    <<"#">> \o Zfill2(HexFrom2(rgb[1])) \o Zfill2(HexFrom2(rgb[2]))
            \o Zfill2(HexFrom2(rgb[3]))

\* The blue slice taken one character early, _[3:] for _[4:].
ConvertHexToRgb_BlueFrom3(hex) ==
    LET rest == PySliceFrom(hex, 1)
        red   == IntBase16(PySlice(rest, 0, 2))
        green == IntBase16(PySlice(rest, 2, 4))
        blue  == IntBase16(PySliceFrom(rest, 3))
    IN  IF red = << >> \/ green = << >> \/ blue = << >> THEN << >>
        ELSE <<red[1], green[1], blue[1]>>

\* convert_hex_to_rgb: the first character is dropped and the rest is cut at
\* 2 and 4.  The result is the triplet, or << >> when one int() raises.
ConvertHexToRgb(hex) ==
    LET rest == PySliceFrom(hex, 1)
        red   == IntBase16(PySlice(rest, 0, 2))
        green == IntBase16(PySlice(rest, 2, 4))
        blue  == IntBase16(PySliceFrom(rest, 4))
    IN  IF red = << >> \/ green = << >> \/ blue = << >> THEN << >>
        ELSE <<red[1], green[1], blue[1]>>

\* 60 * h_hsl as the fraction <<numerator, denominator>>.
HueFrac(rgb) ==
    LET max_rgb == Max3(rgb)
        diff_max_min == max_rgb - Min3(rgb)
    IN  IF diff_max_min = 0 THEN <<0, 1>>
        ELSE IF max_rgb = rgb[1]
             THEN <<(60 * (rgb[2] - rgb[3])) % (360 * diff_max_min), diff_max_min>>
        ELSE IF max_rgb = rgb[2]
             THEN <<60 * (rgb[3] - rgb[1]) + 120 * diff_max_min, diff_max_min>>
        ELSE <<60 * (rgb[1] - rgb[2]) + 240 * diff_max_min, diff_max_min>>

\* l_hsl * 100 as a fraction: l_hsl = 0.5 * (max + min) / 255.
LightFrac(rgb) == <<100 * (Max3(rgb) + Min3(rgb)), 510>>

\* s_hsl * 100 as a fraction: 0 when l_hsl is 0 or 1, else
\* diff / (1 - |2 l - 1|) / 255, where 255 * (1 - |2 l - 1|) = 255 - |max + min - 255|.
SatFrac(rgb) ==
    LET sum == Max3(rgb) + Min3(rgb)
    IN  IF sum = 0 \/ sum = 510 THEN <<0, 1>>
        ELSE <<100 * (Max3(rgb) - Min3(rgb)), 255 - Abs(sum - 255)>>

\* round() of a fraction <<n, d>>.
RoundFrac(f) == PyRound(f[1], f[2])

\* convert_rgb_to_hsl
ConvertRgbToHsl(rgb) ==
    <<RoundFrac(HueFrac(rgb)), RoundFrac(SatFrac(rgb)), RoundFrac(LightFrac(rgb))>>

\* Byte strings the model hashes.
EmptyBytes == << >>
NetworkBytes == <<"n","e","t","w","o","r","k">>
ABytes == <<"a">>
BBytes == <<"b">>

\* hashlib.md5(string).hexdigest() on those byte strings.
Md5Hexdigest(string) ==
    CASE string = EmptyBytes ->
           <<"d","4","1","d","8","c","d","9","8","f","0","0","b","2","0","4",
             "e","9","8","0","0","9","9","8","e","c","f","8","4","2","7","e">>
      [] string = NetworkBytes ->
           <<"9","1","e","0","2","c","d","2","b","8","6","2","1","d","0","c",
             "0","5","1","9","7","f","6","4","5","6","6","8","c","5","c","4">>
      [] string = ABytes ->
           <<"0","c","c","1","7","5","b","9","c","0","f","1","b","6","a","8",
             "3","1","c","3","9","9","e","2","6","9","7","7","2","6","6","1">>
      [] string = BBytes ->
           <<"9","2","e","b","5","f","f","e","e","6","a","e","2","f","e","c",
             "3","a","d","7","1","c","7","7","7","5","3","1","5","7","8","f">>

\* The triplet set_rgb_from_string stores: slice i of the digest is
\* hash_str[8*i:8*(i+1)], each slice taken base 16 and modulo 256.
RgbFromString(string) ==
    LET hash_str == Md5Hexdigest(string)
    IN  <<IntBase16Mod256(PySlice(hash_str, 0, 8)),
          IntBase16Mod256(PySlice(hash_str, 8, 16)),
          IntBase16Mod256(PySlice(hash_str, 16, 24))>>

\* str.upper() on the letters component names are drawn from.
LowerLetters == <<"r","g","b","h","s","l","x">>
UpperLetters == <<"R","G","B","H","S","L","X">>

UpperChar(c) ==
    IF \E i \in 1..Len(LowerLetters) : LowerLetters[i] = c
    THEN UpperLetters[CHOOSE i \in 1..Len(LowerLetters) : LowerLetters[i] = c]
    ELSE c

Upper(s) == [i \in 1..Len(s) |-> UpperChar(s[i])]

\* sub in s, for strings
Contains(s, sub) ==
    \E i \in 0..(Len(s) - Len(sub)) : PySlice(s, i, i + Len(sub)) = sub

\* s.index(sub), the first position of sub in s
IndexOf(s, sub) ==
    CHOOSE i \in 0..(Len(s) - Len(sub)) :
        /\ PySlice(s, i, i + Len(sub)) = sub
        /\ \A j \in 0..(i - 1) : PySlice(s, j, j + Len(sub)) /= sub

----------------------------------------------------------------------------
(* The state: one Color, from the constructor call on *)

VARIABLES
    status,        \* "start", "constructed", or "raised" when __init__ raised
    args,          \* the arguments the constructor was called with
    attrs,         \* the names of the instance attributes that are set
    self_rgb,      \* self._rgb
    self_hex_rgb,  \* self._hex_rgb
    self_hex,      \* self._hex
    self_hsl,      \* self._hsl
    keys,          \* the order in which the models dict yields its keys
    call,          \* the last method called and its argument
    ret,           \* what it returned, << >> for None or after a raise
    exc            \* the exception it raised, "None" when it returned

vars == <<status, args, attrs, self_rgb, self_hex_rgb, self_hex, self_hsl,
          keys, call, ret, exc>>

fields == <<attrs, self_rgb, self_hex_rgb, self_hex, self_hsl>>

\* Python's None, for an argument and for a return value.
None == << >>

\* The default of the hex_rgb parameter.
DefaultHex == <<"#","0","0","0","0","0","0">>

\* The default of the rgb parameter.
DefaultRgb == <<0, 0, 0>>

\* Channel values the triplets are drawn from.
Channels == (0..MaxLow) \cup ((255 - MaxLow)..255)

Picks == {<<8, 3, 0>>, <<9, 7, 7>>, <<210, 12, 100>>, <<170, 187, 204>>, <<1, 2, 3>>}

Triples == (Channels \X Channels \X Channels) \cup Picks

\* Two-character channel parts of the hex strings: lowercase and uppercase
\* digits, a non-digit, a sign.
Pairs == {<<"0","0">>, <<"0","a">>, <<"A","B">>, <<"z","z">>, <<"-","1">>}

\* Hex strings: with and without the leading "#", with six channel
\* characters, with a seventh, and with only five.
HexStrings ==
    {pre \o a \o b \o c \o tail :
        pre \in {<<"#">>, << >>}, a \in Pairs, b \in Pairs, c \in Pairs,
        tail \in {<< >>, <<"7">>}}
    \cup {<<"#">> \o a \o b \o <<c[1]>> : a \in Pairs, b \in Pairs, c \in Pairs}

HexFew == {<<"#","f","F","0","0","0","0">>, <<"#","0","a","A","B","0","0">>,
           <<"#","1","2","3","4","5">>, <<"#","z","z","z","z","z","z">>}

\* The string argument: None, or <<b>> for the byte string b.
ByteStrings == {EmptyBytes, NetworkBytes, ABytes, BBytes}
Strings == {None} \cup {<<b>> : b \in ByteStrings}

\* The constructor calls the model makes.
Calls ==
    {[rgb |-> t, hex_rgb |-> DefaultHex, string |-> None] : t \in Triples}
    \cup {[rgb |-> DefaultRgb, hex_rgb |-> h, string |-> None] : h \in HexStrings}
    \cup {[rgb |-> t, hex_rgb |-> h, string |-> s] :
            t \in Picks, h \in HexFew, s \in Strings}
    \cup {[rgb |-> t, hex_rgb |-> DefaultHex, string |-> s] :
            t \in {DefaultRgb, <<1, 2, 3>>}, s \in Strings}

\* Component names looked up.
Components ==
    {<<UpperLetters[i]>> : i \in 1..Len(UpperLetters)}
    \cup {<<LowerLetters[i]>> : i \in 1..Len(LowerLetters)}
    \cup {<< >>, <<"R","G">>, <<"G","B">>, <<"B","H">>, <<"g","b">>, <<"L","R">>,
          <<"R","X">>, <<"H","S","L">>, <<"R","G","B","H","S","L">>}

\* The key orders of the dict literal {'RGB': .., 'HSL': ..}: insertion order
\* on interpreters that keep it, either order on Python 3.4, which setup.py
\* names and whose dicts are ordered by randomised string hashes.
KeyOrders == {<<"RGB", "HSL">>, <<"HSL", "RGB">>}

ModelName(k) == IF k = "RGB" THEN <<"R","G","B">> ELSE <<"H","S","L">>

Init ==
    /\ status = "start"
    /\ args = [rgb |-> DefaultRgb, hex_rgb |-> DefaultHex, string |-> None]
    /\ attrs = {}
    /\ self_rgb = << >>
    /\ self_hex_rgb = << >>
    /\ self_hex = << >>
    /\ self_hsl = << >>
    /\ keys \in KeyOrders
    /\ call = [op |-> "none", arg |-> << >>]
    /\ ret = None
    /\ exc = "None"

\* if string: a bytes argument is true when it is not None and not empty.
Truthy(string) == string /= None /\ string[1] /= EmptyBytes

\* __init__
Color(rgb, hex_rgb, string) ==
    /\ status = "start"
    /\ args' = [rgb |-> rgb, hex_rgb |-> hex_rgb, string |-> string]
    /\ call' = [op |-> "__init__", arg |-> << >>]
    /\ ret' = None
    /\ IF hex_rgb /= DefaultHex
       THEN LET decoded == ConvertHexToRgb(hex_rgb)
            IN  IF decoded = << >>
                THEN /\ status' = "raised"
                     /\ exc' = "ValueError"
                     /\ UNCHANGED fields
                ELSE /\ status' = "constructed"
                     /\ exc' = "None"
                     /\ attrs' = {"_hex_rgb", "_rgb", "_hsl"}
                     /\ self_hex_rgb' = hex_rgb
                     /\ self_rgb' = decoded
                     /\ self_hsl' = ConvertRgbToHsl(decoded)
                     /\ UNCHANGED self_hex
       ELSE IF Truthy(string)
       THEN \* set_hex_from_string: set_rgb_from_string, set_hex_from_rgb,
            \* set_hsl_from_hex
            LET hashed  == RgbFromString(string[1])
                encoded == ConvertRgbToHex(hashed)
                decoded == ConvertHexToRgb(encoded)
            IN  IF decoded = << >>
                THEN /\ status' = "raised"
                     /\ exc' = "ValueError"
                     /\ UNCHANGED fields
                ELSE /\ status' = "constructed"
                     /\ exc' = "None"
                     /\ attrs' = {"_rgb", "_hex_rgb", "_hsl"}
                     /\ self_hex_rgb' = encoded
                     /\ self_rgb' = decoded
                     /\ self_hsl' = ConvertRgbToHsl(decoded)
                     /\ UNCHANGED self_hex
       ELSE /\ status' = "constructed"
            /\ exc' = "None"
            /\ attrs' = {"_rgb", "_hex", "_hsl"}
            /\ self_rgb' = rgb
            /\ self_hex' = ConvertRgbToHex(rgb)
            /\ self_hsl' = ConvertRgbToHsl(rgb)
            /\ UNCHANGED self_hex_rgb
    /\ UNCHANGED keys

\* get_hex
get_hex ==
    /\ status = "constructed"
    /\ call' = [op |-> "get_hex", arg |-> << >>]
    /\ IF "_hex_rgb" \in attrs
       THEN ret' = self_hex_rgb /\ exc' = "None"
       ELSE ret' = None /\ exc' = "AttributeError"
    /\ UNCHANGED <<status, args, keys, fields>>

\* get_rgb
get_rgb ==
    /\ status = "constructed"
    /\ call' = [op |-> "get_rgb", arg |-> << >>]
    /\ ret' = self_rgb
    /\ exc' = "None"
    /\ UNCHANGED <<status, args, keys, fields>>

\* get_hsl
get_hsl ==
    /\ status = "constructed"
    /\ call' = [op |-> "get_hsl", arg |-> << >>]
    /\ ret' = self_hsl
    /\ exc' = "None"
    /\ UNCHANGED <<status, args, keys, fields>>

\* set_hex_from_rgb
set_hex_from_rgb ==
    /\ status = "constructed"
    /\ call' = [op |-> "set_hex_from_rgb", arg |-> << >>]
    /\ ret' = None
    /\ exc' = "None"
    /\ self_hex_rgb' = ConvertRgbToHex(self_rgb)
    /\ attrs' = attrs \cup {"_hex_rgb"}
    /\ UNCHANGED <<status, args, keys, self_rgb, self_hex, self_hsl>>

\* set_rgb_from_hex: get_hex raises AttributeError while _hex_rgb is not set,
\* int() raises ValueError on a slice that is no number.
set_rgb_from_hex ==
    /\ status = "constructed"
    /\ call' = [op |-> "set_rgb_from_hex", arg |-> << >>]
    /\ ret' = None
    /\ IF "_hex_rgb" \notin attrs
       THEN exc' = "AttributeError" /\ UNCHANGED fields
       ELSE IF ConvertHexToRgb(self_hex_rgb) = << >>
       THEN exc' = "ValueError" /\ UNCHANGED fields
       ELSE /\ exc' = "None"
            /\ self_rgb' = ConvertHexToRgb(self_hex_rgb)
            /\ UNCHANGED <<attrs, self_hex_rgb, self_hex, self_hsl>>
    /\ UNCHANGED <<status, args, keys>>

\* set_hsl_from_rgb
set_hsl_from_rgb ==
    /\ status = "constructed"
    /\ call' = [op |-> "set_hsl_from_rgb", arg |-> << >>]
    /\ ret' = None
    /\ exc' = "None"
    /\ self_hsl' = ConvertRgbToHsl(self_rgb)
    /\ UNCHANGED <<status, args, keys, attrs, self_rgb, self_hex_rgb, self_hex>>

\* set_hsl_from_hex: assigns _rgb from the hex string, then _hsl from _rgb.
set_hsl_from_hex ==
    /\ status = "constructed"
    /\ call' = [op |-> "set_hsl_from_hex", arg |-> << >>]
    /\ ret' = None
    /\ IF "_hex_rgb" \notin attrs
       THEN exc' = "AttributeError" /\ UNCHANGED fields
       ELSE IF ConvertHexToRgb(self_hex_rgb) = << >>
       THEN exc' = "ValueError" /\ UNCHANGED fields
       ELSE /\ exc' = "None"
            /\ self_rgb' = ConvertHexToRgb(self_hex_rgb)
            /\ self_hsl' = ConvertRgbToHsl(ConvertHexToRgb(self_hex_rgb))
            /\ UNCHANGED <<attrs, self_hex_rgb, self_hex>>
    /\ UNCHANGED <<status, args, keys>>

\* "".join(self.models.keys())
GoodComponents == ModelName(keys[1]) \o ModelName(keys[2])

\* list(self.models.values())
ModelValues == <<IF keys[1] = "RGB" THEN self_rgb ELSE self_hsl,
                 IF keys[2] = "RGB" THEN self_rgb ELSE self_hsl>>

\* The position inside the model taken one too far, (index + 1) % 3.
Lookup_ShiftedIndex(component) ==
    LET component_index == IndexOf(GoodComponents, component)
    IN  ModelValues[(component_index \div 3) + 1][((component_index + 1) % 3) + 1]

\* What __getitem__ returns for a name found in good_components: the model is
\* values[int(index / 3)], the component model[index % 3].
Lookup(component) ==
    LET component_index == IndexOf(GoodComponents, component)
    IN  ModelValues[(component_index \div 3) + 1][(component_index % 3) + 1]

\* __getitem__
getitem(name) ==
    /\ status = "constructed"
    /\ call' = [op |-> "__getitem__", arg |-> name]
    /\ IF ~Contains(GoodComponents, Upper(name))
       THEN ret' = None /\ exc' = "NotAValidComponentException"
       ELSE ret' = <<Lookup(Upper(name))>> /\ exc' = "None"
    /\ UNCHANGED <<status, args, keys, fields>>

\* One constructor call, then any calls of the getters, the four recompute
\* methods and the lookup.  set_rgb_from_string and set_hex_from_string run
\* as the string branch of __init__.
Next ==
    \/ \E c \in Calls : Color(c.rgb, c.hex_rgb, c.string)
    \/ get_hex
    \/ get_rgb
    \/ get_hsl
    \/ set_hex_from_rgb
    \/ set_rgb_from_hex
    \/ set_hsl_from_rgb
    \/ set_hsl_from_hex
    \/ \E name \in Components : getitem(name)

Spec == Init /\ [][Next]_vars

----------------------------------------------------------------------------
(* Vocabulary of the properties *)

Constructed == status = "constructed"

InRange(t) == \A i \in 1..3 : t[i] >= 0 /\ t[i] <= 255

\* "#" followed by exactly six hexadecimal digits
WellFormedHex(h) ==
    Len(h) = 7 /\ h[1] = "#" /\ \A i \in 2..7 : IsHexDigit(h[i])

\* The constructor was called with an in-range triplet and a well-formed hex
\* string (a byte string of any content is valid).
ValidCall == InRange(args.rgb) /\ WellFormedHex(args.hex_rgb)

\* Only a triplet was passed: hex_rgb at its default and no byte string.
RgbOnly == args.hex_rgb = DefaultHex /\ args.string = None

SixLetters == {<<"R">>, <<"G">>, <<"B">>, <<"H">>, <<"S">>, <<"L">>}

\* The fraction f rounded to the nearest integer, ties away from zero.
RoundHalfAway(f) ==
    LET n == IF f[2] < 0 THEN 0 - f[1] ELSE f[1]
        d == Abs(f[2])
    IN  IF n >= 0 THEN (2 * n + d) \div (2 * d)
        ELSE 0 - ((2 * (0 - n) + d) \div (2 * d))

\* The integer k is a nearest integer of the fraction f: at most 1/2 away.
Nearest(k, f) == 2 * Abs(k * f[2] - f[1]) <= Abs(f[2])

----------------------------------------------------------------------------
(* The claims *)

\* C1: after constructing a Color from an in-range RGB triplet alone, get_rgb
\* returns the triplet, get_hex returns its "#rrggbb" encoding and get_hsl
\* returns its HSL conversion, without any recompute call first.
C1_RgbConstruction ==
    (Constructed /\ RgbOnly /\ InRange(args.rgb)) =>
        /\ (call.op = "get_rgb" => exc = "None" /\ ret = args.rgb)
        /\ (call.op = "get_hex" =>
               exc = "None" /\ ret = ConvertRgbToHex(args.rgb))
        /\ (call.op = "get_hsl" =>
               exc = "None" /\ ret = ConvertRgbToHsl(args.rgb))

\* C2: a constructor call with a hex string that is not "#" followed by six
\* hexadecimal digits raises; no Color is constructed from it.
C2_MalformedHexFails ==
    (status /= "start" /\ ~WellFormedHex(args.hex_rgb)) => status = "raised"

\* C3: on a validly constructed Color, looking up a name that, upper-cased, is
\* not one of the six single letters R, G, B, H, S, L raises
\* NotAValidComponentException and returns nothing.
C3_BadNameRaises ==
    (Constructed /\ ValidCall /\ call.op = "__getitem__"
        /\ Upper(call.arg) \notin SixLetters) =>
        exc = "NotAValidComponentException" /\ ret = None

\* C4: the HSL triplet a validly constructed Color holds for an in-range RGB
\* triplet has its hue in [0, 360), its saturation in [0, 100] and its
\* lightness in [0, 100].
C4_HslRanges ==
    (Constructed /\ ValidCall /\ InRange(self_rgb)) =>
        /\ self_hsl[1] >= 0 /\ self_hsl[1] < 360
        /\ self_hsl[2] >= 0 /\ self_hsl[2] <= 100
        /\ self_hsl[3] >= 0 /\ self_hsl[3] <= 100

\* C5: whenever a byte string is supplied (of any length, hex at its
\* default, any rgb argument), the Color is built from the string's hash:
\* RGB is the three digest slices modulo 256, hex encodes that RGB and HSL is
\* its conversion.
C5_FromBytes ==
    (status /= "start" /\ args.hex_rgb = DefaultHex /\ args.string /= None) =>
        /\ Constructed
        /\ self_rgb = RgbFromString(args.string[1])
        /\ "_hex_rgb" \in attrs
        /\ self_hex_rgb = ConvertRgbToHex(self_rgb)
        /\ self_hsl = ConvertRgbToHsl(self_rgb)

\* C6: after a valid construction and any recompute calls, a Color that holds
\* all three representations has hex equal to the lowercase encoding of rgb,
\* hsl equal to the conversion of rgb, and rgb equal to the decoding of hex.
C6_Consistent ==
    (Constructed /\ ValidCall /\ {"_rgb", "_hex_rgb", "_hsl"} \subseteq attrs) =>
        /\ self_hex_rgb = ConvertRgbToHex(self_rgb)
        /\ self_hsl = ConvertRgbToHsl(self_rgb)
        /\ self_rgb = ConvertHexToRgb(self_hex_rgb)

\* C7: on a Color built from an in-range triplet, once set_hex_from_rgb has
\* stored the hex string, that string has 7 characters and set_rgb_from_hex
\* succeeds and leaves exactly the original triplet.
C7_RoundTrip ==
    (Constructed /\ RgbOnly /\ InRange(args.rgb) /\ "_hex_rgb" \in attrs) =>
        /\ Len(self_hex_rgb) = 7
        /\ self_rgb = args.rgb
        /\ (call.op = "set_rgb_from_hex" => exc = "None")

\* A Color built from a triplet alone has had set_hex_from_rgb and then
\* set_rgb_from_hex called on it.
C7_Witness ==
    /\ Constructed /\ RgbOnly /\ InRange(args.rgb)
    /\ "_hex_rgb" \in attrs
    /\ call.op = "set_rgb_from_hex" /\ exc = "None"
    /\ args.rgb = <<254, 1, 255>>

C9_Lookup ==
    (Constructed /\ call.op = "__getitem__") =>
        /\ (call.arg \in {<<"R">>, <<"r">>} => exc = "None" /\ ret = <<self_rgb[1]>>)
        /\ (call.arg \in {<<"G">>, <<"g">>} => exc = "None" /\ ret = <<self_rgb[2]>>)
        /\ (call.arg \in {<<"B">>, <<"b">>} => exc = "None" /\ ret = <<self_rgb[3]>>)
        /\ (call.arg \in {<<"H">>, <<"h">>} => exc = "None" /\ ret = <<self_hsl[1]>>)
        /\ (call.arg \in {<<"S">>, <<"s">>} => exc = "None" /\ ret = <<self_hsl[2]>>)
        /\ (call.arg \in {<<"L">>, <<"l">>} => exc = "None" /\ ret = <<self_hsl[3]>>)

\* A lowercase lookup of a component of the second model of the dict, on a
\* Color whose triplets differ in every position.
C9_Witness ==
    /\ Constructed /\ call.op = "__getitem__" /\ call.arg = <<"s">>
    /\ keys = <<"RGB", "HSL">>
    /\ self_rgb = <<210, 12, 100>> /\ ret = <<89>>

\* C10 as stated: every HSL component of an in-range triplet is the exact
\* value rounded to the nearest integer, ties away from zero.
C10_HalfAwayFromZero ==
    (Constructed /\ ValidCall /\ InRange(self_rgb)) =>
        self_hsl = <<RoundHalfAway(HueFrac(self_rgb)),
                     RoundHalfAway(SatFrac(self_rgb)),
                     RoundHalfAway(LightFrac(self_rgb))>>

\* C10 amended: every HSL component of an in-range triplet is a nearest
\* integer of the exact value, and the ties of (8,3,0) (hue 22.5) and of
\* (9,7,7) (saturation 12.5) go to the even neighbours 22 and 12.
C10_NearestTiesToEven ==
    (Constructed /\ ValidCall /\ InRange(self_rgb)) =>
        /\ Nearest(self_hsl[1], HueFrac(self_rgb))
        /\ Nearest(self_hsl[2], SatFrac(self_rgb))
        /\ Nearest(self_hsl[3], LightFrac(self_rgb))
        /\ (self_rgb = <<8, 3, 0>> => self_hsl[1] = 22)
        /\ (self_rgb = <<9, 7, 7>> => self_hsl[2] = 12)

\* The Color of (8,3,0), whose exact hue is 22.5, holds its HSL.
C10_Witness ==
    /\ Constructed /\ self_rgb = <<8, 3, 0>>
    /\ HueFrac(self_rgb) = <<180, 8>>
    /\ self_hsl = <<22, 100, 2>>

====
